---- MODULE Spec2Model ----
(***************************************************************************)
(* Match-state engine of cricket-commentary-agents: the data model,        *)
(* update_probability, update_state, the polling producer and the          *)
(* ingestion loop of CricketAgent.                                         *)
(*                                                                         *)
(* Python objects live in heaps: MatchState instances in objs, the lists   *)
(* they refer to in evlists (recent_events) and dplists                    *)
(* (dismissed_players).  A reference is an index into its heap.            *)
(*                                                                         *)
(* Probabilities are exact rationals sgn * n / (20^k * 4500^j), n a        *)
(* natural number kept as base-10000 digits (least significant first), so  *)
(* that products of 0.85, 0.70, 1.05 and the time factor never leave the   *)
(* integer range.  overs_played is kept in tenths of an over (6.0 = 60).   *)
(***************************************************************************)
EXTENDS Integers, Sequences, FiniteSets, TLC

\* ------------------------------------------------------------------------
\* Bounds of the model
\* ------------------------------------------------------------------------
MaxEvents == 2

MaxPolls == 2

\* ------------------------------------------------------------------------
\* Exact arithmetic
\* ------------------------------------------------------------------------
RECURSIVE MulCarry(_, _, _)
MulCarry(a, m, c) ==
    IF a = << >>
    THEN IF c = 0 THEN << >> ELSE <<c>>
    ELSE LET t == Head(a) * m + c
         IN  <<t % 10000>> \o MulCarry(Tail(a), m, t \div 10000)

BigMul(a, m) == IF m = 0 THEN << >> ELSE MulCarry(a, m, 0)

RECURSIVE BigMulPow(_, _, _)
BigMulPow(a, m, e) == IF e = 0 THEN a ELSE BigMulPow(BigMul(a, m), m, e - 1)

RECURSIVE CmpFrom(_, _, _)
CmpFrom(a, b, i) ==
    IF i = 0 THEN 0
    ELSE IF a[i] < b[i] THEN -1
    ELSE IF a[i] > b[i] THEN 1
    ELSE CmpFrom(a, b, i - 1)

\* -1, 0, 1 as a < b, a = b, a > b
BigCmp(a, b) ==
    IF Len(a) < Len(b) THEN -1
    ELSE IF Len(a) > Len(b) THEN 1
    ELSE CmpFrom(a, b, Len(a))

RECURSIVE StripZeros(_)
StripZeros(a) ==
    IF a = << >> THEN a
    ELSE IF a[Len(a)] = 0 THEN StripZeros(SubSeq(a, 1, Len(a) - 1))
    ELSE a

RECURSIVE SubBorrow(_, _, _)
SubBorrow(a, b, c) ==
    IF a = << >> THEN << >>
    ELSE LET bd == IF b = << >> THEN 0 ELSE Head(b)
             t  == Head(a) - bd - c
             bt == IF b = << >> THEN b ELSE Tail(b)
         IN  IF t < 0
             THEN <<t + 10000>> \o SubBorrow(Tail(a), bt, 1)
             ELSE <<t>> \o SubBorrow(Tail(a), bt, 0)

\* a - b for a >= b
BigSub(a, b) == StripZeros(SubBorrow(a, b, 0))

RECURSIVE AddCarry(_, _, _)
AddCarry(a, b, c) ==
    IF a = << >> /\ b = << >>
    THEN IF c = 0 THEN << >> ELSE <<c>>
    ELSE LET ad == IF a = << >> THEN 0 ELSE Head(a)
             bd == IF b = << >> THEN 0 ELSE Head(b)
             at == IF a = << >> THEN a ELSE Tail(a)
             bt == IF b = << >> THEN b ELSE Tail(b)
             t  == ad + bd + c
         IN  <<t % 10000>> \o AddCarry(at, bt, t \div 10000)

BigAdd(a, b) == AddCarry(a, b, 0)

\* the rational sgn * n / (20^k * 4500^j)
Rat(s, digits, kk, jj) == [sgn |-> s, n |-> digits, k |-> kk, j |-> jj]

\* x / 20 for an integer x
Twentieths(x) ==
    IF x = 0 THEN Rat(0, << >>, 0, 0)
    ELSE IF x < 0 THEN Rat(-1, <<-x>>, 1, 0)
    ELSE Rat(1, <<x>>, 1, 0)

Den(p) == BigMulPow(BigMulPow(<<1>>, 20, p.k), 4500, p.j)

\* numerator of p over the denominator Den(p) * Den(q)
Over(p, q) == BigMulPow(BigMulPow(p.n, 20, q.k), 4500, q.j)

\* -1, 0, 1 as p < q, p = q, p > q
RCmp(p, q) ==
    IF p.sgn # q.sgn THEN (IF p.sgn < q.sgn THEN -1 ELSE 1)
    ELSE IF p.sgn = 0 THEN 0
    ELSE p.sgn * BigCmp(Over(p, q), Over(q, p))

REq(p, q) == RCmp(p, q) = 0

RLess(p, q) == RCmp(p, q) = -1

\* p * (x / 20), x > 0
RMul20(p, x) == Rat(p.sgn, BigMul(p.n, x), p.k + 1, p.j)

\* p * (t / 4500), t any integer
RMul4500(p, t) ==
    IF t = 0 \/ p.sgn = 0 THEN Rat(0, << >>, 0, 0)
    ELSE IF t < 0 THEN Rat(-p.sgn, BigMul(p.n, -t), p.k, p.j + 1)
    ELSE Rat(p.sgn, BigMul(p.n, t), p.k, p.j + 1)

\* p + q
RAdd(p, q) ==
    LET a == Over(p, q)
        b == Over(q, p)
        kk == p.k + q.k
        jj == p.j + q.j
    IN  IF p.sgn = 0 THEN q
        ELSE IF q.sgn = 0 THEN p
        ELSE IF p.sgn = q.sgn THEN Rat(p.sgn, BigAdd(a, b), kk, jj)
        ELSE IF BigCmp(a, b) = 0 THEN Rat(0, << >>, 0, 0)
        ELSE IF BigCmp(a, b) = 1 THEN Rat(p.sgn, BigSub(a, b), kk, jj)
        ELSE Rat(q.sgn, BigSub(b, a), kk, jj)

RNeg(p) == Rat(-p.sgn, p.n, p.k, p.j)

ROne == Rat(1, <<1>>, 0, 0)

\* 1.0 - p
OneMinus(p) == RAdd(ROne, RNeg(p))

\* ------------------------------------------------------------------------
\* Data model (core/state.py)
\* ------------------------------------------------------------------------
None == "None"

CurrentBatterName == "Sai Sudharsan"

OtherBatterName == "KL Rahul"

Batter(nm, r, b, strike) ==
    [name |-> nm, runs |-> r, balls_faced |-> b, is_on_strike |-> strike]

Event(ts, type, runs, bat, bowl, overs, mode, field, score, wkts) ==
    [timestamp |-> ts, event_type |-> type, runs_scored |-> runs,
     batter |-> bat, bowler |-> bowl, overs_played |-> overs,
     dismissal_mode |-> mode, fielder |-> field,
     current_score |-> score, current_wickets |-> wkts]

DismissedPlayer(nm, r, b, mode, bowl, field, score, overs) ==
    [name |-> nm, runs |-> r, balls_faced |-> b, dismissal_mode |-> mode,
     bowler |-> bowl, fielder |-> field, dismissed_at_score |-> score,
     dismissed_at_overs |-> overs]

\* dismissed_players and recent_events are references into dplists, evlists
MatchState(id, team, total, wkts, overs, tgt, bat, dps, evs, pd, pw, upd) ==
    [match_id |-> id, team_batting |-> team, total_runs |-> total,
     wickets_lost |-> wkts, overs_played |-> overs, target |-> tgt,
     current_batter |-> bat, dismissed_players |-> dps,
     recent_events |-> evs, p_draw |-> pd, p_sa_win |-> pw,
     last_updated |-> upd]

\* the state of initialize_match_state(), its two empty lists being dps, evs
initialize_match_state(dps, evs) ==
    MatchState("117380", "India", 27, 2, 60, 549,
               Batter(CurrentBatterName, 2, 4, TRUE), dps, evs,
               Twentieths(7), Twentieths(13), 0)

\* ------------------------------------------------------------------------
\* Probability model (core/probability.py)
\* ------------------------------------------------------------------------
\* the time factor without min(1.0, ...)
TimeFactor4500_Uncapped(overs) == 5400 - overs

\* 4500 * min(1.0, 1 + ((90 - overs_played) / 90) * 0.2), overs in tenths
TimeFactor4500(overs) ==
    IF 5400 - overs >= 4500 THEN 4500 ELSE 5400 - overs

ApplyTimeFactor(p, overs) ==
    IF TimeFactor4500(overs) = 4500 THEN p
    ELSE RMul4500(p, TimeFactor4500(overs))

ApplyWicketPenalty(p, event, s) ==
    IF event.event_type = "wicket"
    THEN IF s.wickets_lost < 5 THEN RMul20(p, 17) ELSE RMul20(p, 14)
    ELSE p

\* a boost for every event with four runs or more, whatever its type
ApplyBoundaryBoost_AnyType(p, event) ==
    IF event.runs_scored >= 4 THEN RMul20(p, 21) ELSE p

\* the boost of a runs event with runs_scored >= 4
ApplyBoundaryBoost(p, event) ==
    IF event.event_type = "runs" /\ event.runs_scored >= 4
    THEN RMul20(p, 21)
    ELSE p

\* Clamp without the lower limit
Clamp_NoLowerLimit(p) ==
    IF RLess(p, Twentieths(19)) THEN p ELSE Twentieths(19)

\* max(0.05, min(0.95, p))
Clamp(p) ==
    LET m == IF RLess(p, Twentieths(19)) THEN p ELSE Twentieths(19)
    IN  IF RLess(Twentieths(1), m) THEN m ELSE Twentieths(1)

update_probability(old_p_draw, event, s) ==
    Clamp(ApplyBoundaryBoost(
            ApplyWicketPenalty(
              ApplyTimeFactor(old_p_draw, s.overs_played), event, s),
            event))

\* ------------------------------------------------------------------------
\* State transition engine (agents/event_handler.py)
\* ------------------------------------------------------------------------
\* ListCopy without the copy: the same list object under a second name
ListCopy_Alias(heap, ref) == [heap |-> heap, ref |-> ref]

\* list.copy(): a new list object with the same elements
ListCopy(heap, ref) == [heap |-> Append(heap, heap[ref]), ref |-> Len(heap) + 1]

\* list.append(x): the list object itself changes
ListAppend(heap, ref, x) == [heap EXCEPT ![ref] = Append(@, x)]

\* list + [x] that keeps the new element only
ListConcat_OnlyNew(heap, ref, x) ==
    [heap |-> Append(heap, <<x>>), ref |-> Len(heap) + 1]

\* [x] + list: the new element put in front
ListConcat_Front(heap, ref, x) ==
    [heap |-> Append(heap, <<x>> \o heap[ref]), ref |-> Len(heap) + 1]

\* list + [x]: a new list object
ListConcat(heap, ref, x) ==
    [heap |-> Append(heap, Append(heap[ref], x)), ref |-> Len(heap) + 1]

\* TransitionError with the overs check left out
TransitionError_NoOversCheck(s, event) ==
    IF event.runs_scored < 0 THEN "Runs cannot be negative"
    ELSE IF event.event_type = "wicket" /\ s.wickets_lost + 1 > 10
         THEN "Cannot lose more than 10 wickets"
    ELSE "ok"

\* TransitionError with the wicket ceiling off by one
TransitionError_WicketOffByOne(s, event) ==
    IF event.runs_scored < 0 THEN "Runs cannot be negative"
    ELSE IF event.overs_played < s.overs_played THEN "Overs went backwards"
    ELSE IF event.event_type = "wicket" /\ s.wickets_lost > 10
         THEN "Cannot lose more than 10 wickets"
    ELSE "ok"

\* the checks of update_state in their order; "ok" when none raises
\* TransitionError testing the overs before the runs
TransitionError_OversFirst(s, event) ==
    IF event.overs_played < s.overs_played THEN "Overs went backwards"
    ELSE IF event.runs_scored < 0 THEN "Runs cannot be negative"
    ELSE IF event.event_type = "wicket" /\ s.wickets_lost + 1 > 10
         THEN "Cannot lose more than 10 wickets"
    ELSE "ok"

\* TransitionError without the check of negative runs
TransitionError_NoRunsCheck(s, event) ==
    IF event.overs_played < s.overs_played THEN "Overs went backwards"
    ELSE IF event.event_type = "wicket" /\ s.wickets_lost + 1 > 10
         THEN "Cannot lose more than 10 wickets"
    ELSE "ok"

TransitionError(s, event) ==
    IF event.runs_scored < 0 THEN "Runs cannot be negative"
    ELSE IF event.overs_played < s.overs_played THEN "Overs went backwards"
    ELSE IF event.event_type = "wicket" /\ s.wickets_lost + 1 > 10
         THEN "Cannot lose more than 10 wickets"
    ELSE "ok"

\* SumRunsReversed counting the events of every type
RECURSIVE SumRunsReversed_AnyType(_, _)
SumRunsReversed_AnyType(events, name) ==
    IF events = << >> THEN 0
    ELSE LET prev_event == events[Len(events)]
             rest == SubSeq(events, 1, Len(events) - 1)
         IN  IF prev_event.batter = name
             THEN prev_event.runs_scored + SumRunsReversed_AnyType(rest, name)
             ELSE SumRunsReversed_AnyType(rest, name)

\* for prev_event in reversed(events): sum the runs of the named batter
RECURSIVE SumRunsReversed(_, _)
SumRunsReversed(events, name) ==
    IF events = << >> THEN 0
    ELSE LET prev_event == events[Len(events)]
             rest == SubSeq(events, 1, Len(events) - 1)
         IN  IF prev_event.batter = name /\ prev_event.event_type = "runs"
             THEN prev_event.runs_scored + SumRunsReversed(rest, name)
             ELSE SumRunsReversed(rest, name)

\* DismissedRuns that only sums the runs events of the batter
DismissedRuns_FromEvents(s, events, event) ==
    SumRunsReversed(events, event.batter)

\* dismissed_runs of update_state
DismissedRuns(s, events, event) ==
    IF s.current_batter.name = event.batter
    THEN s.current_batter.runs
    ELSE SumRunsReversed(events, event.batter)

\* the values of an optional text that Python takes as false: None and ""
Falsy(x) == x \in {None, ""}

\* x or "unknown" that keeps x whatever it is
OrUnknown_Keep(x) == x

\* x or "unknown"
OrUnknown(x) == IF Falsy(x) THEN "unknown" ELSE x

NewDismissedPlayer(s, events, event) ==
    DismissedPlayer(event.batter, DismissedRuns(s, events, event), 0,
                    OrUnknown(event.dismissal_mode), OrUnknown(event.bowler),
                    event.fielder, event.current_score, event.overs_played)

\* event.event_type == "wicket" and event.batter
TracksDismissal(event) ==
    event.event_type = "wicket" /\ ~Falsy(event.batter)

\* NewState carrying the prior p_sa_win over
NewState_StaleSaWin(s, event, dps, evs, new_p_draw) ==
    MatchState(s.match_id, s.team_batting, event.current_score,
               event.current_wickets, event.overs_played, s.target,
               s.current_batter, dps, evs, new_p_draw,
               s.p_sa_win, event.timestamp)

\* NewState adding the event's runs and wicket to the prior totals
NewState_Incremental(s, event, dps, evs, new_p_draw) ==
    MatchState(s.match_id, s.team_batting, s.total_runs + event.runs_scored,
               IF event.event_type = "wicket" THEN s.wickets_lost + 1
                                              ELSE s.wickets_lost,
               event.overs_played, s.target,
               s.current_batter, dps, evs, new_p_draw,
               OneMinus(new_p_draw), event.timestamp)

\* NewState bringing a new batter in when the current batter is dismissed
NewState_NextBatter(s, event, dps, evs, new_p_draw) ==
    MatchState(s.match_id, s.team_batting, event.current_score,
               event.current_wickets, event.overs_played, s.target,
               IF /\ event.event_type = "wicket"
                  /\ event.batter = s.current_batter.name
               THEN Batter(OtherBatterName, 0, 0, TRUE)
               ELSE s.current_batter,
               dps, evs, new_p_draw, OneMinus(new_p_draw), event.timestamp)

\* NewState stamped with the address of a list instead of the event's time
NewState_AddressStamp(s, event, dps, evs, new_p_draw) ==
    MatchState(s.match_id, s.team_batting, event.current_score,
               event.current_wickets, event.overs_played, s.target,
               s.current_batter, dps, evs, new_p_draw,
               OneMinus(new_p_draw), evs)

\* the MatchState built at the end of update_state
NewState(s, event, dps, evs, new_p_draw) ==
    MatchState(s.match_id, s.team_batting, event.current_score,
               event.current_wickets, event.overs_played, s.target,
               s.current_batter, dps, evs, new_p_draw,
               OneMinus(new_p_draw), event.timestamp)

\* update_state(state, event) on the heaps o, evl, dpl; sref refers to state.
\* error is "ok" and ref the new instance, or error is the ValueError raised.
update_state(o, evl, dpl, sref, event) ==
    LET s == o[sref]
        err == TransitionError(s, event)
        new_p_draw == update_probability(s.p_draw, event, s)
        cp == ListCopy(dpl, s.dismissed_players)
        dpl2 == IF TracksDismissal(event)
                THEN ListAppend(cp.heap, cp.ref,
                       NewDismissedPlayer(s, evl[s.recent_events], event))
                ELSE cp.heap
        cat == ListConcat(evl, s.recent_events, event)
    IN  IF err # "ok"
        THEN [error |-> err, objs |-> o, evlists |-> evl, dplists |-> dpl,
              ref |-> 0]
        ELSE [error |-> "ok",
              objs |-> Append(o, NewState(s, event, cp.ref, cat.ref,
                                          new_p_draw)),
              evlists |-> cat.heap, dplists |-> dpl2, ref |-> Len(o) + 1]

\* ------------------------------------------------------------------------
\* Event validator (agents/event_handler.py, core/state.py).  A payload is
\* the set of keys it has (present) and a value for each key
\* ------------------------------------------------------------------------
required_fields ==
    <<"event_type", "timestamp", "current_score", "current_wickets",
      "overs_played">>

\* the first required field that payload lacks: its index, 0 when none
FirstMissing(payload) ==
    IF \A i \in 1..Len(required_fields) : required_fields[i] \in payload.present
    THEN 0
    ELSE CHOOSE i \in 1..Len(required_fields) :
           /\ required_fields[i] \notin payload.present
           /\ \A j \in 1..(i - 1) : required_fields[j] \in payload.present

\* a constraint on balls_in_over that lets every integer pass
BallsInOverValid_Any(b) == TRUE

\* Field(ge=1, le=6) of Event.balls_in_over
BallsInOverValid(b) == b >= 1 /\ b <= 6

\* Event(**event_dict): balls_in_over has no default, so it is required;
\* runs_scored defaults to 0 and batter to None
EventFromPayload(payload) ==
    Event(payload.timestamp.t, payload.event_type,
          IF "runs_scored" \in payload.present THEN payload.runs_scored
                                                ELSE 0,
          IF "batter" \in payload.present THEN payload.batter ELSE None,
          None, payload.overs_played, None, None, payload.current_score,
          payload.current_wickets)

Failure(error, field) ==
    [ok |-> FALSE, error |-> error, field |-> field,
     event |-> Event(0, None, 0, None, None, 0, None, None, 0, 0)]

\* validate_event(event_dict): the Event made, or the error raised and the
\* field it names
validate_event(payload) ==
    IF FirstMissing(payload) # 0
    THEN Failure("Missing required field",
                 required_fields[FirstMissing(payload)])
    ELSE IF payload.timestamp.kind = "text" /\ ~payload.timestamp.parses
    THEN Failure("Invalid timestamp format", "timestamp")
    ELSE IF "balls_in_over" \notin payload.present
    THEN Failure("ValidationError: field required", "balls_in_over")
    ELSE IF ~BallsInOverValid(payload.balls_in_over)
    THEN Failure("ValidationError: out of range", "balls_in_over")
    ELSE [ok |-> TRUE, error |-> "ok", field |-> None,
          event |-> EventFromPayload(payload)]

\* ------------------------------------------------------------------------
\* Inputs
\* ------------------------------------------------------------------------
\* 5.0, 7.1 and 112.5 overs: before, after the seed's 6.0, and beyond 90
OversSpace == {50, 71, 1125}


\* overs_played with current_wickets
OversWicketsSpace ==
    {<<50, 3>>, <<71, 3>>, <<71, 10>>, <<71, 11>>, <<1125, 3>>, <<1125, 10>>}

\* event_type, runs_scored, batter
KindSpace ==
    {<<"wicket", 0, None>>, <<"wicket", 0, CurrentBatterName>>,
     <<"wicket", 0, OtherBatterName>>, <<"wicket", -1, CurrentBatterName>>,
     <<"runs", -1, OtherBatterName>>, <<"runs", 1, OtherBatterName>>,
     <<"runs", 4, OtherBatterName>>, <<"dot", 0, None>>,
     <<"boundary", 4, OtherBatterName>>}

\* the bowler, dismissal_mode and fielder of an event: given for the
\* current batter, else empty text beyond 90 overs and None before
MakeEvent(kind, overs, wkts) ==
    LET absent == IF overs > 900 THEN "" ELSE None
    IN  Event(overs + wkts, kind[1], kind[2], kind[3],
              IF kind[3] = CurrentBatterName THEN "Marco Jansen" ELSE absent,
              overs,
              IF kind[3] = CurrentBatterName THEN "caught" ELSE absent,
              IF kind[3] = CurrentBatterName THEN "Aiden Markram" ELSE absent,
              IF wkts = 10 THEN 20 ELSE 31, wkts)

EventSpace ==
    {MakeEvent(kind, ow[1], ow[2]) :
        kind \in KindSpace, ow \in OversWicketsSpace}

\* old_p_draw values: below, at and above the clamp limits
ProbSpace == {Twentieths(x) : x \in {-1, 0, 1, 2, 7, 18, 19, 20, 25}}

\* ------------------------------------------------------------------------
\* Polling producer (services/cricket_api.py)
\* ------------------------------------------------------------------------
Abs(x) == IF x < 0 THEN -x ELSE x

\* the "anything changed" test of detect_new_event
NoChange(match_data, s) ==
    /\ match_data.runs = s.total_runs
    /\ match_data.wickets = s.wickets_lost
    /\ Abs(match_data.overs - s.overs_played) < 1

\* detect_new_event(match_data, state) at time now: found is FALSE for None
detect_new_event(match_data, s, now) ==
    IF NoChange(match_data, s)
    THEN [found |-> FALSE,
          event |-> Event(0, None, 0, None, None, 0, None, None, 0, 0)]
    ELSE [found |-> TRUE,
          event |->
            Event(now,
                  IF match_data.wickets > s.wickets_lost
                  THEN "wicket" ELSE "runs",
                  IF match_data.wickets > s.wickets_lost
                  THEN 0 ELSE match_data.runs - s.total_runs,
                  "Unknown", "Unknown", match_data.overs, None, None,
                  match_data.runs, match_data.wickets)]

\* ------------------------------------------------------------------------
\* Query router (agents/router.py); a query is the set of keywords in it
\* ------------------------------------------------------------------------
\* route_query without the special case of runs to win
route_query_NoRunsToWin(query) ==
    IF query \cap {"score", "runs", "wickets", "overs", "batting"} # {}
    THEN "stats"
    ELSE IF "who" \in query /\ "momentum" \notin query THEN "stats"
    ELSE IF query \cap {"chance", "draw", "win", "probability", "odds",
                        "likely"} # {}
         THEN "probability"
    ELSE IF query \cap {"momentum", "happening", "happened", "situation",
                        "trouble", "doing"} # {}
         THEN "momentum"
    ELSE IF query \cap {"dismissed", "dismissal"} # {} THEN "tactical"
    ELSE IF query \cap {"why", "how"} # {} /\ "out" \in query THEN "tactical"
    ELSE "stats"

route_query(query) ==
    IF query \cap {"score", "runs", "wickets", "overs", "batting"} # {}
    THEN "stats"
    ELSE IF query \cap {"run", "runs"} # {} /\ "win" \in query THEN "stats"
    ELSE IF "who" \in query /\ "momentum" \notin query THEN "stats"
    ELSE IF query \cap {"chance", "draw", "win", "probability", "odds",
                        "likely"} # {}
         THEN "probability"
    ELSE IF query \cap {"momentum", "happening", "happened", "situation",
                        "trouble", "doing"} # {}
         THEN "momentum"
    ELSE IF query \cap {"dismissed", "dismissal"} # {} THEN "tactical"
    ELSE IF query \cap {"why", "how"} # {} /\ "out" \in query THEN "tactical"
    ELSE "stats"

\* ------------------------------------------------------------------------
\* Query agents (agents/*_agent.py, services/llm_client.py).  A query is the
\* set of the substrings tested by the router and the agents that it
\* contains.  A response is the template of its text and the values put in
\* it; gen is what get_intelligent_response does: "none" (no client, or the
\* API call failed: None), "empty" (empty text), "raises", "text"
\* ------------------------------------------------------------------------
Response(source, template, values) ==
    [source |-> source, template |-> template, values |-> values]

LastOf(seq) == seq[Len(seq)]

\* the last n elements of seq: seq[-n:]
Tail_n(seq, n) ==
    IF Len(seq) <= n THEN seq ELSE SubSeq(seq, Len(seq) - n + 1, Len(seq))

\* "jaiswal" in player.name.lower()
IsJaiswal(name) == name = "Yashasvi Jaiswal"

\* f"c {fielder}" if fielder else dismissal_mode
DismissalDesc(x) ==
    IF ~Falsy(x.fielder) THEN <<"c", x.fielder>> ELSE <<x.dismissal_mode>>

\* the first player of dismissed the jaiswal branch answers with, 0 if none
JaiswalIndex(dismissed, query) ==
    IF \E i \in 1..Len(dismissed) :
         IsJaiswal(dismissed[i].name) \/ "jasiwal" \in query
    THEN CHOOSE i \in 1..Len(dismissed) :
           /\ IsJaiswal(dismissed[i].name) \/ "jasiwal" \in query
           /\ \A j \in 1..(i - 1) :
                ~(IsJaiswal(dismissed[j].name) \/ "jasiwal" \in query)
    ELSE 0

\* stats_agent._get_keyword_response(state, query)
StatsFallback(s, dismissed, query) ==
    LET jaiswal == IF query \cap {"jaiswal", "jasiwal", "yashasvi"} # {}
                   THEN JaiswalIndex(dismissed, query) ELSE 0
    IN  IF "wicket" \in query /\ query \cap {"remain", "remian", "left"} # {}
        THEN Response("fallback", "wickets remaining",
                      <<10 - s.wickets_lost, s.wickets_lost>>)
        ELSE IF "wicket" \in query /\ "lost" \in query
        THEN Response("fallback", "wickets lost", <<s.wickets_lost>>)
        ELSE IF "bat" \in query /\ query \cap {"who", "is"} # {}
        THEN Response("fallback", "currently batting",
                      <<s.current_batter.name, s.current_batter.runs,
                        s.current_batter.balls_faced>>)
        ELSE IF "run" \in query /\ query \cap {"need", "require", "win"} # {}
        THEN Response("fallback", "runs needed",
                      <<s.target - s.total_runs, s.total_runs,
                        s.wickets_lost>>)
        ELSE IF "run" \in query /\ query \cap {"score", "total"} # {}
        THEN Response("fallback", "current score",
                      <<s.total_runs, s.wickets_lost>>)
        ELSE IF jaiswal # 0
        THEN Response("fallback", "dismissed player",
                      <<dismissed[jaiswal].name, dismissed[jaiswal].runs,
                        DismissalDesc(dismissed[jaiswal]),
                        dismissed[jaiswal].bowler>>)
        ELSE IF /\ query \cap {"out", "dismiss"} # {}
                /\ query \cap {"how", "what", "who", "when"} # {}
                /\ dismissed # << >>
        THEN Response("fallback", "dismissed player",
                      <<LastOf(dismissed).name, LastOf(dismissed).runs,
                        DismissalDesc(LastOf(dismissed)),
                        LastOf(dismissed).bowler>>)
        ELSE IF "over" \in query /\ query \cap {"remain", "left"} # {}
        THEN Response("fallback", "overs remaining",
                      <<900 - s.overs_played, s.overs_played>>)
        ELSE IF "target" \in query
        THEN Response("fallback", "target",
                      <<s.target, s.total_runs, s.wickets_lost>>)
        ELSE Response("fallback", "scorecard",
                      <<s.total_runs, s.wickets_lost, s.overs_played,
                        s.target, 900 - s.overs_played, 10 - s.wickets_lost,
                        s.current_batter.name, s.current_batter.runs>>)

\* probability_agent._get_fallback_response(state)
ProbabilityFallback(s) ==
    Response("fallback", "probabilities",
             <<s.p_draw, s.p_sa_win, 900 - s.overs_played,
               10 - s.wickets_lost - 1>>)

RECURSIVE SumRuns(_)
\* sum(e.runs_scored for e in events if e.event_type == "runs")
SumRuns(events) ==
    IF events = << >> THEN 0
    ELSE (IF Head(events).event_type = "runs" THEN Head(events).runs_scored
                                              ELSE 0) + SumRuns(Tail(events))

\* momentum_agent._get_fallback_response(state)
MomentumFallback(events) ==
    LET recent == Tail_n(events, 10)
    IN  IF \E i \in 1..Len(recent) : recent[i].event_type = "wicket"
        THEN Response("fallback", "South Africa has momentum", << >>)
        ELSE IF SumRuns(recent) >= 20
        THEN Response("fallback", "India building momentum", << >>)
        ELSE Response("fallback", "Match is balanced", << >>)

\* tactical_agent._get_fallback_response(state, query); the commentary of an
\* event is not kept in the model
TacticalFallback(events, dismissed, query) ==
    LET jaiswal == IF query \cap {"jaiswal", "jasiwal", "yashasvi"} # {}
                   THEN JaiswalIndex(dismissed, query) ELSE 0
    IN  IF jaiswal # 0
        THEN Response("fallback", "dismissed player",
                      <<dismissed[jaiswal].name, dismissed[jaiswal].runs,
                        DismissalDesc(dismissed[jaiswal]),
                        dismissed[jaiswal].bowler>>)
        ELSE IF events = << >>
        THEN Response("fallback", "No recent events to analyze", << >>)
        ELSE IF LastOf(events).event_type = "wicket"
        THEN Response("fallback", "last wicket",
                      <<LastOf(events).batter, DismissalDesc(LastOf(events)),
                        LastOf(events).bowler>>)
        ELSE Response("fallback", "Last ball", << >>)

\* an agent that lets an exception of the generator pass
AgentTry_NoExcept(gen, fallback) ==
    IF gen = "text" THEN Response("generated", "generated text", << >>)
    ELSE IF gen = "raises" THEN Response("raised", "exception", << >>)
    ELSE fallback

\* the try around get_intelligent_response in get_*_response_async: the text
\* generated when there is one, else the fallback
AgentTry(gen, fallback) ==
    IF gen = "text" THEN Response("generated", "generated text", << >>)
    ELSE fallback

\* get_*_response_async(state, query) of the agent of category
AgentResponse(category, s, events, dismissed, query, gen) ==
    AgentTry(gen,
             IF category = "stats" THEN StatsFallback(s, dismissed, query)
             ELSE IF category = "probability" THEN ProbabilityFallback(s)
             ELSE IF category = "momentum" THEN MomentumFallback(events)
             ELSE TacticalFallback(events, dismissed, query))

\* the categories handle_query has an agent for
Categories == {"stats", "probability", "momentum", "tactical"}

\* the text handle_query returns for any other category
NotUnderstood == Response("none", "I didn't understand that", << >>)

CategoryTag(category) ==
    IF category = "stats" THEN "[STATS]"
    ELSE IF category = "probability" THEN "[PROBABILITY]"
    ELSE IF category = "momentum" THEN "[MOMENTUM]"
    ELSE IF category = "tactical" THEN "[TACTICAL]"
    ELSE "no tag"

GeneratorSpace == {"none", "empty", "raises", "text"}

\* timestamps of a payload: a datetime, text that datetime.fromisoformat
\* parses, text that it does not
TimestampSpace ==
    {[kind |-> "datetime", parses |-> TRUE, t |-> 5],
     [kind |-> "text", parses |-> TRUE, t |-> 5],
     [kind |-> "text", parses |-> FALSE, t |-> 0]}

OptionalKeys == {"runs_scored", "balls_in_over", "batter"}

\* runs_scored, overs_played, current_wickets of a payload: a boundary after
\* the seed state, negative runs, overs before the seed's, eleven wickets
SemanticsSpace == {<<4, 71, 2>>, <<-1, 71, 2>>, <<4, 50, 2>>, <<4, 71, 11>>}

BallsSpace == {0, 1, 6, 7}

Payload(present, ts, balls, sem) ==
    [present |-> present, timestamp |-> ts, event_type |-> "runs",
     runs_scored |-> sem[1], batter |-> OtherBatterName,
     overs_played |-> sem[2], current_score |-> 31,
     current_wickets |-> sem[3], balls_in_over |-> balls]

\* the sample event of test_event_processing
sample_event ==
    [Payload({"event_type", "timestamp", "batter", "runs_scored",
              "current_score", "current_wickets", "overs_played",
              "balls_in_over"},
             [kind |-> "text", parses |-> TRUE, t |-> 5], 1, <<4, 71, 2>>)
       EXCEPT !.batter = CurrentBatterName]

PayloadSpace ==
    {Payload(req \cup opt, ts, balls, sem) :
        req \in SUBSET {required_fields[i] : i \in 1..Len(required_fields)},
        opt \in SUBSET OptionalKeys, ts \in TimestampSpace,
        balls \in BallsSpace, sem \in SemanticsSpace}

\* ------------------------------------------------------------------------
\* Inputs of the running agent
\* ------------------------------------------------------------------------
\* what fetch_match_data returns: None, or the parsed score, wickets, overs
MatchData(r, w, o) == [runs |-> r, wickets |-> w, overs |-> o]

DataSpace ==
    {MatchData(27, 2, 60), MatchData(31, 2, 71), MatchData(31, 3, 71),
     MatchData(20, 2, 71), MatchData(31, 2, 50), MatchData(40, 10, 1125),
     MatchData(31, 11, 71)}

\* what fetch_historical_dismissals returns
HistorySpace ==
    {<< >>,
     <<DismissedPlayer("Yashasvi Jaiswal", 13, 20, "caught", "Marco Jansen",
                       None, 17, 41)>>}

\* the keywords route_query looks for
RouterKeywords ==
    {"score", "runs", "wickets", "overs", "batting", "run", "win", "who",
     "chance", "draw", "probability", "odds", "likely", "momentum",
     "happening", "happened", "situation", "trouble", "doing", "dismissed",
     "dismissal", "why", "how", "out"}

\* the substrings tested by the router and the agents that a query with the
\* keyword has as well
Implied(keyword) ==
    IF keyword = "runs" THEN {"run"}
    ELSE IF keyword = "wickets" THEN {"wicket"}
    ELSE IF keyword = "overs" THEN {"over"}
    ELSE IF keyword = "batting" THEN {"bat"}
    ELSE IF keyword \in {"dismissed", "dismissal"} THEN {"dismiss", "is"}
    ELSE {}

QueryWith(keywords) == keywords \cup UNION {Implied(k) : k \in keywords}

\* most keywords a generated query is made of
MaxKeywords == 3

\* the queries of test_query_routing, in its order
test_queries ==
    <<{"score", "what"}, {"draw"}, {"happened", "what"},
      {"why", "out", "jaiswal"}>>

\* queries made of up to MaxKeywords router keywords, and the test queries
RouterQuerySpace ==
    {QueryWith(ks) : ks \in {k \in SUBSET RouterKeywords :
                                Cardinality(k) <= MaxKeywords}}
    \cup {test_queries[i] : i \in 1..Len(test_queries)}

\* a query is the set of router keywords it contains
QuerySpace ==
    {{"score"}, {"draw"}, {"momentum"}, {"dismissed", "dismiss", "is"},
     {"hello"}}

\* ------------------------------------------------------------------------
\* State
\* ------------------------------------------------------------------------
VARIABLES
    objs,        \* heap of MatchState instances
    evlists,     \* heap of recent_events lists
    dplists,     \* heap of dismissed_players lists
    state,       \* reference to the current MatchState (0: None)
    hist,        \* the last update_state call: prior reference, event, error
    probe,       \* the last update_probability call: inputs and result
    event_queue, \* CricketAgent.event_queue
    running,     \* CricketAgent.running
    config,      \* auto_poll and fetch_history of the agent
    pc,          \* where run(), poll_cricket_api and process_auto_events are
    cur,         \* the task the event loop is executing, "none" between tasks
    poll_state,  \* the state argument poll_cricket_api was started with
    polls,       \* poll_count of poll_cricket_api
    taken,       \* number of events process_auto_events took from the queue
    held,        \* the event process_auto_events holds
    reader,      \* the last handle_query: query, category, snapshot taken
    validation,  \* the last validate_event call: payload and outcome
    answer,      \* the last text handle_query returned to its caller
    twin         \* a second run of update_state calls: its state, last error

vars == <<objs, evlists, dplists, state, hist, probe, event_queue, running,
          config, pc, cur, poll_state, polls, taken, held, reader,
          validation, answer, twin>>

heapvars == <<objs, evlists, dplists>>

callvars == <<probe, validation, answer, twin>>

agentvars == <<event_queue, running, config, pc, cur, poll_state, polls,
               taken, held, reader>>

\* placeholder of an event where none has been seen yet
NoEvent == Event(0, None, 0, None, None, 0, None, None, 0, 0)

NoHist == [prior |-> 0, event |-> NoEvent, error |-> None]

NoProbe == [called |-> FALSE, old_p_draw |-> Twentieths(0), event |-> NoEvent,
            overs_played |-> 0, wickets_lost |-> 0, result |-> Twentieths(0)]

NoReader == [query |-> {}, category |-> None, ref |-> 0]

NoTwin == [ref |-> 0, error |-> None]

NoAnswer ==
    [query |-> {}, category |-> None, ref |-> 0, generator |-> None,
     tag |-> None, response |-> Response(None, None, << >>)]

NoValidation ==
    [called |-> FALSE,
     payload |-> Payload({}, [kind |-> "datetime", parses |-> TRUE, t |-> 0],
                         0, <<0, 0, 0>>),
     result |-> Failure(None, None)]

\* CricketAgent.__init__ with no task made yet
InitAgent ==
    /\ event_queue = << >>
    /\ running = TRUE
    /\ polls = 0
    /\ taken = 0
    /\ held = NoEvent
    /\ reader = NoReader

\* state = initialize_match_state()
InitSeed ==
    /\ objs = <<initialize_match_state(1, 1)>>
    /\ evlists = << << >> >>
    /\ dplists = << << >> >>
    /\ state = 1
    /\ hist = NoHist
    /\ probe = NoProbe
    /\ validation = NoValidation
    /\ answer = NoAnswer
    /\ twin = NoTwin
    /\ InitAgent
    /\ poll_state = 0
    /\ config = [auto_poll |-> FALSE, fetch_history |-> FALSE]
    /\ pc = [run |-> "caller", poll |-> "absent", proc |-> "absent"]
    /\ cur = "none"

\* ------------------------------------------------------------------------
\* update_state driven directly: state = update_state(state, event), the
\* ValueError of a rejected event caught by the caller
\* ------------------------------------------------------------------------
ApplyEvent ==
    /\ Len(objs) <= MaxEvents
    /\ \E event \in EventSpace :
         LET r == update_state(objs, evlists, dplists, state, event)
         IN  /\ objs' = r.objs
             /\ evlists' = r.evlists
             /\ dplists' = r.dplists
             /\ state' = IF r.error = "ok" THEN r.ref ELSE state
             /\ hist' = [prior |-> state, event |-> event, error |-> r.error]
    /\ UNCHANGED <<callvars, agentvars>>

InitUS == InitSeed

NextUS == ApplyEvent

SpecUS == InitUS /\ [][NextUS]_vars

\* ------------------------------------------------------------------------
\* two runs of update_state calls from two seed states with equal fields,
\* given the same events; the objects of the two runs have different
\* addresses
\* ------------------------------------------------------------------------
\* events before and after the seed's overs, and beyond 90 overs
TwinEventSpace ==
    {MakeEvent(kind, ow[1], ow[2]) :
        kind \in KindSpace, ow \in {<<50, 3>>, <<71, 3>>, <<1125, 10>>}}

ApplyEventTwice ==
    /\ Len(objs) <= 2 * MaxEvents
    /\ \E event \in TwinEventSpace :
         LET r1 == update_state(objs, evlists, dplists, state, event)
             r2 == update_state(r1.objs, r1.evlists, r1.dplists, twin.ref,
                                event)
         IN  /\ objs' = r2.objs
             /\ evlists' = r2.evlists
             /\ dplists' = r2.dplists
             /\ state' = IF r1.error = "ok" THEN r1.ref ELSE state
             /\ twin' = [ref |-> IF r2.error = "ok" THEN r2.ref ELSE twin.ref,
                         error |-> r2.error]
             /\ hist' = [prior |-> state, event |-> event, error |-> r1.error]
    /\ UNCHANGED <<probe, validation, answer, agentvars>>

\* initialize_match_state() called twice
InitTwin ==
    /\ objs = <<initialize_match_state(1, 1), initialize_match_state(2, 2)>>
    /\ evlists = << << >>, << >> >>
    /\ dplists = << << >>, << >> >>
    /\ state = 1
    /\ twin = [ref |-> 2, error |-> None]
    /\ hist = NoHist
    /\ probe = NoProbe
    /\ validation = NoValidation
    /\ answer = NoAnswer
    /\ InitAgent
    /\ poll_state = 0
    /\ config = [auto_poll |-> FALSE, fetch_history |-> FALSE]
    /\ pc = [run |-> "caller", poll |-> "absent", proc |-> "absent"]
    /\ cur = "none"

NextTwin == ApplyEventTwice

SpecTwin == InitTwin /\ [][NextTwin]_vars

\* ------------------------------------------------------------------------
\* update_probability called on arbitrary inputs
\* ------------------------------------------------------------------------
\* overs_played of the state update_probability is given: none, the seed's
\* 6.0, 90.0 and the next ball after it
ProbeOversSpace == {0, 60, 900, 901}

CallUpdateProbability ==
    /\ ~probe.called
    /\ \E old \in ProbSpace \cup {objs[state].p_draw},
          event \in EventSpace, overs \in OversSpace \cup ProbeOversSpace,
          wkts \in {2, 5} :
         LET s == [objs[state] EXCEPT !.overs_played = overs,
                                      !.wickets_lost = wkts]
         IN  probe' = [called |-> TRUE, old_p_draw |-> old, event |-> event,
                       overs_played |-> overs, wickets_lost |-> wkts,
                       result |-> update_probability(old, event, s)]
    /\ UNCHANGED <<heapvars, state, hist, validation, answer, twin,
                   agentvars>>


\* ------------------------------------------------------------------------
\* validate_event and process_event called on arbitrary payloads
\* ------------------------------------------------------------------------
CallValidateEvent ==
    /\ ~validation.called
    /\ \E payload \in PayloadSpace :
         validation' = [called |-> TRUE, payload |-> payload,
                        result |-> validate_event(payload)]
    /\ UNCHANGED <<heapvars, state, hist, probe, answer, twin, agentvars>>

\* process_event(event_json, state) on the current state, the JSON parsed
\* to payload: validate_event, then update_state unless it raised
ProcessPayload(payload) ==
    LET v == validate_event(payload)
        r == update_state(objs, evlists, dplists, state, v.event)
    IN  /\ validation' = [called |-> TRUE, payload |-> payload, result |-> v]
        /\ objs' = IF v.ok THEN r.objs ELSE objs
        /\ evlists' = IF v.ok THEN r.evlists ELSE evlists
        /\ dplists' = IF v.ok THEN r.dplists ELSE dplists
        /\ state' = IF v.ok /\ r.error = "ok" THEN r.ref ELSE state
        /\ hist' = IF v.ok
                   THEN [prior |-> state, event |-> v.event, error |-> r.error]
                   ELSE hist

ProcessEvent ==
    /\ ~validation.called
    /\ \E payload \in PayloadSpace : ProcessPayload(payload)
    /\ UNCHANGED <<probe, answer, twin, agentvars>>

InitVE == InitSeed

NextVE ==
    \/ CallValidateEvent
    \/ ProcessEvent

SpecVE == InitVE /\ [][NextVE]_vars

\* test_event_processing: process_event of the sample event, a four of the
\* current batter at 7.1 overs, on the state just initialised
test_event_processing ==
    /\ ~validation.called
    /\ state = 1
    /\ ProcessPayload(sample_event)
    /\ UNCHANGED <<probe, answer, twin, agentvars>>

InitUP == InitSeed

NextUP ==
    \/ CallUpdateProbability
    \/ test_event_processing

SpecUP == InitUP /\ [][NextUP]_vars

\* ------------------------------------------------------------------------
\* The tasks of the agent on the asyncio event loop (cli/main.py,
\* services/cricket_api.py).  cur is the task being executed; a task keeps
\* the loop until it suspends in an await, and only then cur is "none".
\* ------------------------------------------------------------------------
\* the loop of asyncio.run is still iterating
LoopAlive == pc.run \notin {"returned", "closed"}

SetPc(task, label) == pc' = [pc EXCEPT ![task] = label]

\* QueuePut putting the item in front
QueuePut_Front(queue, item) == <<item>> \o queue

\* asyncio.Queue: put appends at the tail, get takes the head
QueuePut(queue, item) == Append(queue, item)

QueueGet(queue) == [item |-> Head(queue), rest |-> Tail(queue)]

\* a poller that also makes the state it was started with the current state
PollerIteration_WritesState ==
    /\ cur = "none"
    /\ pc.poll = "created" \/ (pc.poll = "sleep" /\ LoopAlive)
    /\ polls < MaxPolls
    /\ polls' = polls + 1
    /\ SetPc("poll", "sleep")
    /\ \E fetched \in BOOLEAN, match_data \in DataSpace :
         LET found == detect_new_event(match_data, objs[poll_state], polls')
         IN  event_queue' = IF fetched /\ found.found
                            THEN QueuePut(event_queue, found.event)
                            ELSE event_queue
    /\ state' = poll_state
    /\ UNCHANGED <<heapvars, hist, callvars, running, config, cur,
                   poll_state, taken, held, reader>>

\* one iteration of the while True of poll_cricket_api, up to its sleep
PollerIteration ==
    /\ cur = "none"
    /\ pc.poll = "created" \/ (pc.poll = "sleep" /\ LoopAlive)
    /\ polls < MaxPolls
    /\ polls' = polls + 1
    /\ SetPc("poll", "sleep")
    /\ \E fetched \in BOOLEAN, match_data \in DataSpace :
         LET found == detect_new_event(match_data, objs[poll_state], polls')
         IN  event_queue' = IF fetched /\ found.found
                            THEN QueuePut(event_queue, found.event)
                            ELSE event_queue
    /\ UNCHANGED <<heapvars, state, hist, callvars, running, config, cur,
                   poll_state, taken, held, reader>>

\* the event loop starts process_auto_events or wakes it from a sleep
ProcResume ==
    /\ cur = "none"
    /\ \/ pc.proc = "created" /\ pc.poll # "created"
       \/ pc.proc \in {"idle_sleep", "error_sleep"} /\ LoopAlive
    /\ cur' = "proc"
    /\ SetPc("proc", "while")
    /\ UNCHANGED <<heapvars, state, hist, callvars, event_queue, running, config,
                   poll_state, polls, taken, held, reader>>

\* a loop test that ignores the stop signal
WhileTest_Always == TRUE

\* the test of while self.running in process_auto_events
WhileTest == running

\* while self.running with nothing to take: leave the loop or sleep 0.5 s
ProcWhile ==
    /\ cur = "proc"
    /\ pc.proc = "while"
    /\ ~WhileTest \/ event_queue = << >>
    /\ SetPc("proc", IF ~WhileTest THEN "done" ELSE "idle_sleep")
    /\ cur' = "none"
    /\ UNCHANGED <<heapvars, state, hist, callvars, event_queue, running, config,
                   poll_state, polls, taken, held, reader>>

\* wait_for(event_queue.get()) returning the head without suspending
ProcGetNow ==
    /\ cur = "proc"
    /\ pc.proc = "while"
    /\ WhileTest /\ event_queue # << >>
    /\ held' = QueueGet(event_queue).item
    /\ event_queue' = QueueGet(event_queue).rest
    /\ taken' = taken + 1
    /\ SetPc("proc", "update_state")
    /\ UNCHANGED <<heapvars, state, hist, callvars, running, config, cur,
                   poll_state, polls, reader>>

\* wait_for(event_queue.get()) suspending first (it runs get() as a task of
\* its own before Python 3.12)
ProcGetSuspend ==
    /\ cur = "proc"
    /\ pc.proc = "while"
    /\ WhileTest /\ event_queue # << >>
    /\ SetPc("proc", "get")
    /\ cur' = "none"
    /\ UNCHANGED <<heapvars, state, hist, callvars, event_queue, running, config,
                   poll_state, polls, taken, held, reader>>

ProcGetResume ==
    /\ cur = "none"
    /\ pc.proc = "get"
    /\ LoopAlive
    /\ held' = QueueGet(event_queue).item
    /\ event_queue' = QueueGet(event_queue).rest
    /\ taken' = taken + 1
    /\ cur' = "proc"
    /\ SetPc("proc", "update_state")
    /\ UNCHANGED <<heapvars, state, hist, callvars, running, config, poll_state,
                   polls, reader>>

\* an exception ending process_auto_events
ExceptTarget_Halt == "done"

\* where except Exception of process_auto_events leaves the loop: in the
\* sleep of 1 s inside the while
ExceptTarget == "error_sleep"

\* self.state = update_state(self.state, event); a ValueError goes to the
\* except Exception branch, which prints and sleeps 1 s
ProcUpdateState ==
    /\ cur = "proc"
    /\ pc.proc = "update_state"
    /\ LET r == update_state(objs, evlists, dplists, state, held)
       IN  /\ objs' = r.objs
           /\ evlists' = r.evlists
           /\ dplists' = r.dplists
           /\ state' = IF r.error = "ok" THEN r.ref ELSE state
           /\ hist' = [prior |-> state, event |-> held, error |-> r.error]
           /\ SetPc("proc", IF r.error = "ok" THEN "write_p_draw"
                                             ELSE ExceptTarget)
           /\ cur' = IF r.error = "ok" THEN "proc" ELSE "none"
    /\ UNCHANGED <<callvars, event_queue, running, config, poll_state, polls,
                   taken, held, reader>>

\* self.state.p_draw = update_probability(self.state.p_draw, event, self.state)
ProcWritePDraw ==
    /\ cur = "proc"
    /\ pc.proc = "write_p_draw"
    /\ objs' = [objs EXCEPT ![state].p_draw =
                  update_probability(objs[state].p_draw, held, objs[state])]
    /\ SetPc("proc", "write_p_sa_win")
    /\ UNCHANGED <<evlists, dplists, state, hist, callvars, event_queue, running,
                   config, cur, poll_state, polls, taken, held, reader>>

\* self.state.p_sa_win = 1.0 - self.state.p_draw, then the next while test
ProcWritePSaWin ==
    /\ cur = "proc"
    /\ pc.proc = "write_p_sa_win"
    /\ objs' = [objs EXCEPT ![state].p_sa_win = OneMinus(objs[state].p_draw)]
    /\ SetPc("proc", "while")
    /\ UNCHANGED <<evlists, dplists, state, hist, callvars, event_queue, running,
                   config, cur, poll_state, polls, taken, held, reader>>

\* handle_query(query): route it, hand self.state to the agent routed to and
\* return its response behind the tag of the category; an exception of the
\* agent is returned as the text "Error processing query"
handle_query(query, gen) ==
    LET category == route_query(query)
        s == objs[state]
        response == IF category \in Categories
                    THEN AgentResponse(category, s, evlists[s.recent_events],
                                       dplists[s.dismissed_players], query,
                                       gen)
                    ELSE NotUnderstood
    IN  [query |-> query, category |-> category, ref |-> state,
         generator |-> gen,
         tag |-> IF response.source = "raised" THEN "Error processing query"
                                               ELSE CategoryTag(category),
         response |-> response]

\* what a handle_query call read: the query, its category and the MatchState
\* it handed to the agent
Snapshot(call) ==
    [query |-> call.query, category |-> call.category, ref |-> call.ref]

\* ------------------------------------------------------------------------
\* The ingestion loop and the producer as tasks of an event loop that runs
\* them: the agent's caller suspends between its calls
\* ------------------------------------------------------------------------
\* the caller asks a query
HandleQuery ==
    /\ cur = "none"
    /\ pc.run = "caller"
    /\ \E query \in QuerySpace, gen \in GeneratorSpace :
         reader' = Snapshot(handle_query(query, gen))
    /\ UNCHANGED <<heapvars, state, hist, callvars, event_queue, running, config,
                   pc, cur, poll_state, polls, taken, held>>

\* handle_query called once on a state that update_state calls have built
AnswerQuery ==
    /\ answer = NoAnswer
    /\ \E query \in QuerySpace, gen \in GeneratorSpace :
         answer' = handle_query(query, gen)
    /\ UNCHANGED <<heapvars, state, hist, probe, validation, twin, agentvars>>

\* handle_query called once on the seed state with any query
RouteAnyQuery ==
    /\ answer = NoAnswer
    /\ \E query \in RouterQuerySpace, gen \in GeneratorSpace :
         answer' = handle_query(query, gen)
    /\ UNCHANGED <<heapvars, state, hist, probe, validation, twin, agentvars>>

InitRQ == InitSeed

NextRQ == RouteAnyQuery

SpecRQ == InitRQ /\ [][NextRQ]_vars

InitHQ == InitSeed

NextHQ == (answer = NoAnswer /\ ApplyEvent) \/ AnswerQuery

SpecHQ == InitHQ /\ [][NextHQ]_vars

\* the caller sets self.running = False
Stop ==
    /\ cur = "none"
    /\ pc.run = "caller"
    /\ running
    /\ running' = FALSE
    /\ UNCHANGED <<heapvars, state, hist, callvars, event_queue, config, pc, cur,
                   poll_state, polls, taken, held, reader>>

\* the state is initialised, with or without history, and both tasks are made
Init ==
    /\ \E history \in HistorySpace :
         /\ dplists = IF history = << >> THEN << << >> >>
                                         ELSE << << >>, history >>
         /\ objs = <<initialize_match_state(Len(dplists), 1)>>
    /\ evlists = << << >> >>
    /\ state = 1
    /\ hist = NoHist
    /\ probe = NoProbe
    /\ validation = NoValidation
    /\ answer = NoAnswer
    /\ twin = NoTwin
    /\ InitAgent
    /\ poll_state = 1
    /\ config = [auto_poll |-> TRUE, fetch_history |-> TRUE]
    /\ pc = [run |-> "caller", poll |-> "created", proc |-> "created"]
    /\ cur = "none"

Next ==
    \/ PollerIteration
    \/ ProcResume
    \/ ProcWhile
    \/ ProcGetNow
    \/ ProcGetSuspend
    \/ ProcGetResume
    \/ ProcUpdateState
    \/ ProcWritePDraw
    \/ ProcWritePSaWin
    \/ HandleQuery
    \/ Stop

Spec == Init /\ [][Next]_vars

\* the event loop resumes a task that is ready whenever no task holds the
\* loop, and a task that holds the loop executes until it suspends or ends
FairSpec ==
    /\ Spec
    /\ WF_vars(PollerIteration)
    /\ WF_vars(ProcResume)
    /\ WF_vars(ProcGetResume)
    /\ []<>(cur # "proc")

\* ------------------------------------------------------------------------
\* CricketAgent.run() as asyncio.run(main()) executes it: the main task keeps
\* the loop from its first statement to its return, as input() blocks the
\* thread and neither initialisation nor handle_query suspends
\* ------------------------------------------------------------------------
\* self.state = initialize_state_with_history() or initialize_match_state();
\* the history fetched replaces state.dismissed_players when it is not empty
RunInitialize ==
    /\ cur = "run"
    /\ pc.run = "start"
    /\ \E history \in IF config.fetch_history THEN HistorySpace ELSE {<< >>} :
         /\ dplists' = IF history = << >> THEN << << >> >>
                                          ELSE << << >>, history >>
         /\ objs' = <<initialize_match_state(Len(dplists'), 1)>>
    /\ evlists' = << << >> >>
    /\ state' = 1
    /\ SetPc("run", "initialized")
    /\ UNCHANGED <<hist, callvars, event_queue, running, config, cur, poll_state,
                   polls, taken, held, reader>>

\* the two create_task calls under if self.auto_poll, up to the input loop
RunCreateTasks ==
    /\ cur = "run"
    /\ pc.run = "initialized"
    /\ pc' = IF config.auto_poll
             THEN [run |-> "input", poll |-> "created", proc |-> "created"]
             ELSE [pc EXCEPT !.run = "input"]
    /\ poll_state' = IF config.auto_poll THEN state ELSE poll_state
    /\ UNCHANGED <<heapvars, state, hist, callvars, event_queue, running, config,
                   cur, polls, taken, held, reader>>

\* input() returns a query: response = await self.handle_query(user_input)
RunQuery ==
    /\ cur = "run"
    /\ pc.run = "input"
    /\ running
    /\ \E query \in QuerySpace, gen \in GeneratorSpace :
         /\ reader' = Snapshot(handle_query(query, gen))
         /\ answer' = handle_query(query, gen)
    /\ UNCHANGED <<heapvars, state, hist, probe, validation, twin, event_queue,
                   running, config, pc, cur, poll_state, polls, taken, held>>

\* input() returns exit, quit or q, or raises KeyboardInterrupt or EOFError:
\* self.running = False, and run() and main() return
RunExit ==
    /\ cur = "run"
    /\ pc.run = "input"
    /\ running
    /\ running' = FALSE
    /\ SetPc("run", "returned")
    /\ cur' = "none"
    /\ UNCHANGED <<heapvars, state, hist, callvars, event_queue, config,
                   poll_state, polls, taken, held, reader>>

\* asyncio.run: the loop stops at the end of the iteration that follows the
\* return of main(), in which each task made had its first step, and the
\* tasks left are cancelled
LoopShutdown ==
    /\ cur = "none"
    /\ pc.run = "returned"
    /\ pc.poll # "created"
    /\ pc.proc \notin {"created", "while"}
    /\ pc' = [run |-> "closed",
              poll |-> IF pc.poll = "absent" THEN "absent" ELSE "cancelled",
              proc |-> pc.proc]
    /\ UNCHANGED <<heapvars, state, hist, callvars, event_queue, running, config,
                   cur, poll_state, polls, taken, held, reader>>

\* CricketAgent(auto_poll, fetch_history) constructed, run() not yet started
InitRun ==
    /\ objs = << >>
    /\ evlists = << >>
    /\ dplists = << >>
    /\ state = 0
    /\ hist = NoHist
    /\ probe = NoProbe
    /\ validation = NoValidation
    /\ answer = NoAnswer
    /\ twin = NoTwin
    /\ InitAgent
    /\ poll_state = 0
    /\ config \in [auto_poll : BOOLEAN, fetch_history : BOOLEAN]
    /\ pc = [run |-> "start", poll |-> "absent", proc |-> "absent"]
    /\ cur = "run"

NextRun ==
    \/ RunInitialize
    \/ RunCreateTasks
    \/ RunQuery
    \/ RunExit
    \/ PollerIteration
    \/ ProcResume
    \/ ProcWhile
    \/ LoopShutdown

SpecRun == InitRun /\ [][NextRun]_vars

\* the event loop runs a task that is ready whenever no task holds it, the
\* main task goes on while it is not blocked, and the user keeps asking
FairSpecRun ==
    /\ SpecRun
    /\ WF_vars(RunInitialize)
    /\ WF_vars(RunCreateTasks)
    /\ WF_vars(RunQuery)
    /\ WF_vars(PollerIteration)
    /\ WF_vars(ProcResume)
    /\ WF_vars(ProcWhile)
    /\ WF_vars(LoopShutdown)

\* ------------------------------------------------------------------------
\* Properties
\* ------------------------------------------------------------------------
\* an update_state call was made in this step
Called == hist' # hist

Accepted == Called /\ hist'.error = "ok"

Rejected == Called /\ hist'.error # "ok"

\* no MatchState instance, no list and no reference changes in this step
NothingWritten == UNCHANGED <<objs, evlists, dplists, state>>

InRange(p) == ~RLess(p, Twentieths(1)) /\ ~RLess(Twentieths(19), p)

\* C1: every MatchState instance has 0 <= wickets_lost <= 10
C1_WicketsWithinTen ==
    \A i \in 1..Len(objs) : objs[i].wickets_lost \in 0..10

\* C4 as stated: overs_played never decreases from one current state to the
\* next, every event with overs_played below the prior state's is rejected
\* with the overs error and nothing is written
C4_RegressionAlwaysOversError ==
    [][Called =>
        /\ objs'[state'].overs_played >= objs[state].overs_played
        /\ hist'.event.overs_played < objs[state].overs_played =>
             hist'.error = "Overs went backwards" /\ NothingWritten]_vars

\* C4 amended: overs_played never decreases from one current state to the
\* next; an event with overs_played below the prior state's is rejected and
\* nothing is written, the error being the overs error unless runs_scored is
\* negative, which is reported first; an accepted event sets overs_played to
\* its own value, which is >= the prior one
C4_OversNonDecreasing ==
    [][Called =>
        /\ objs'[state'].overs_played >= objs[state].overs_played
        /\ hist'.event.overs_played < objs[state].overs_played =>
             /\ hist'.error = IF hist'.event.runs_scored < 0
                              THEN "Runs cannot be negative"
                              ELSE "Overs went backwards"
             /\ NothingWritten
        /\ hist'.error = "ok" =>
             /\ objs'[state'].overs_played = hist'.event.overs_played
             /\ hist'.event.overs_played >= objs[state].overs_played]_vars

\* an event was rejected for its overs after an earlier one had moved them on
C4_Witness ==
    /\ hist.error = "Overs went backwards"
    /\ Len(objs) > 1
    /\ objs[state].overs_played > objs[1].overs_played

\* C5: a wicket event applied to a state with wickets_lost = 10 is rejected
\* and nothing is written, whatever its other fields
C5_WicketAtTenRejected ==
    [][(Called /\ hist'.event.event_type = "wicket"
               /\ objs[state].wickets_lost = 10) =>
        hist'.error # "ok" /\ NothingWritten]_vars

\* a wicket event with no other defect was rejected at ten wickets
C5_Witness ==
    /\ hist.prior = state
    /\ objs[state].wickets_lost = 10
    /\ hist.event.event_type = "wicket"
    /\ hist.event.runs_scored >= 0
    /\ hist.event.overs_played >= objs[state].overs_played
    /\ hist.error = "Cannot lose more than 10 wickets"

\* C6: update_probability returns a value in [0.05, 0.95] for every input,
\* and p_draw of every MatchState instance lies in [0.05, 0.95]
C6_ProbabilityInRange ==
    /\ probe.called => InRange(probe.result)
    /\ \A i \in 1..Len(objs) : InRange(objs[i].p_draw)

\* an old_p_draw below 0.05 came back as 0.05
C6_Witness ==
    /\ probe.called
    /\ RLess(probe.old_p_draw, Twentieths(1))
    /\ REq(probe.result, Twentieths(1))

\* C8: an accepted update_state call leaves every earlier instance and every
\* earlier list as it was, and the two lists of the result are new objects
C8_PriorUntouched ==
    [][Accepted =>
        /\ \A i \in 1..Len(objs) : objs'[i] = objs[i]
        /\ \A i \in 1..Len(evlists) : evlists'[i] = evlists[i]
        /\ \A i \in 1..Len(dplists) : dplists'[i] = dplists[i]
        /\ objs'[state'].recent_events > Len(evlists)
        /\ objs'[state'].dismissed_players > Len(dplists)]_vars

\* a wicket event was accepted and its record is in the result's list only
C8_Witness ==
    /\ hist.error = "ok"
    /\ hist.event.event_type = "wicket"
    /\ Len(dplists[objs[state].dismissed_players])
         = Len(dplists[objs[hist.prior].dismissed_players]) + 1

\* ------------------------------------------------------------------------
\* Properties of the ingestion loop
\* ------------------------------------------------------------------------
\* process_auto_events is between two events: it is not inside lines 121-123
Settled == pc.proc \notin {"update_state", "write_p_draw", "write_p_sa_win"}

\* the instance a and the instance b of the heaps r have the same fields,
\* lists compared by their contents
SameValue(a, r, b) ==
    /\ a.total_runs = b.total_runs
    /\ a.wickets_lost = b.wickets_lost
    /\ a.overs_played = b.overs_played
    /\ a.match_id = b.match_id
    /\ a.team_batting = b.team_batting
    /\ a.target = b.target
    /\ a.current_batter = b.current_batter
    /\ a.last_updated = b.last_updated
    /\ REq(a.p_draw, b.p_draw)
    /\ REq(a.p_sa_win, b.p_sa_win)
    /\ evlists[a.recent_events] = r.evlists[b.recent_events]
    /\ dplists[a.dismissed_players] = r.dplists[b.dismissed_players]

\* C2: once process_auto_events has accepted an event and is done with it,
\* the current state has the fields of update_state(prior, event), prior being
\* the state that was current when the event was taken; its p_draw is
\* update_probability(prior.p_draw, event, prior)
C2_PublishedIsUpdateState ==
    (Settled /\ hist.error = "ok") =>
        LET r == update_state(objs, evlists, dplists, hist.prior, hist.event)
        IN  /\ SameValue(objs[state], r, r.objs[r.ref])
            /\ REq(objs[state].p_draw,
                   update_probability(objs[hist.prior].p_draw, hist.event,
                                      objs[hist.prior]))

\* C7: p_draw + p_sa_win = 1 in the seed state, in every state update_state
\* returned and in every state process_auto_events leaves as the current one;
\* the only instance off it is the current one between lines 122 and 123
C7_ProbabilitiesSumToOne ==
    \A i \in 1..Len(objs) :
        (i # state \/ pc.proc # "write_p_sa_win") =>
            REq(RAdd(objs[i].p_draw, objs[i].p_sa_win), ROne)

\* process_auto_events is done with a wicket that moved p_draw off the seed's
C7_Witness ==
    /\ pc.proc = "while"
    /\ hist.error = "ok"
    /\ hist.event.event_type = "wicket"
    /\ state > 1
    /\ ~REq(objs[state].p_draw, Twentieths(7))
    /\ REq(RAdd(objs[state].p_draw, objs[state].p_sa_win), ROne)

\* the three defects update_state raises for
Defective(s, e) ==
    \/ e.runs_scored < 0
    \/ e.overs_played < s.overs_played
    \/ e.event_type = "wicket" /\ s.wickets_lost >= 10

\* C9: update_state raises for an event with negative runs, regressed overs
\* or a wicket at ten wickets, and a call that raises writes nothing; in
\* process_auto_events the current state is then the same instance with the
\* same fields and lists, and the loop goes to its error sleep
C9_RejectedEventWritesNothing ==
    [][/\ Rejected => NothingWritten
       /\ (Called /\ Defective(objs[state], hist'.event)) => Rejected
       /\ (cur = "proc" /\ pc.proc = "update_state") =>
            /\ Defective(objs[state], held) =>
                 pc'.proc = "error_sleep" /\ hist'.error # "ok"
            /\ pc'.proc = "error_sleep" =>
                 /\ state' = state
                 /\ objs' = objs
                 /\ evlists' = evlists
                 /\ dplists' = dplists]_vars

\* process_auto_events rejected an event with negative runs after it had
\* accepted another one
C9_Witness ==
    /\ pc.proc = "error_sleep"
    /\ hist.error = "Runs cannot be negative"
    /\ hist.prior = state
    /\ state > 1

\* C10: no step writes a field or a list of the instance that is the current
\* state, nor of the instance a reader of handle_query holds
C10_NoInPlaceWrite ==
    [][\A i \in {state, reader.ref} \ {0} :
         /\ objs'[i] = objs[i]
         /\ evlists'[objs[i].recent_events] = evlists[objs[i].recent_events]
         /\ dplists'[objs[i].dismissed_players] =
              dplists[objs[i].dismissed_players]]_vars

\* ------------------------------------------------------------------------
\* Properties of run()
\* ------------------------------------------------------------------------
\* the n-th event has been put on the queue
Put(n) == taken + Len(event_queue) >= n

Ascending(events) ==
    \A i, j \in 1..Len(events) :
        i < j => events[i].timestamp < events[j].timestamp

\* C11: process_auto_events applies the events one at a time and in the
\* order of enqueueing: the queue holds its events in that order, every
\* event still queued was enqueued after the event taken last, recent_events
\* of every state holds events taken so far, in that order and each once;
\* a step takes the head of the queue, puts at its tail, and an update_state
\* call appends the event taken last to recent_events or nothing
C11_AppliedInEnqueueOrder ==
    /\ [](/\ Ascending(event_queue)
          /\ \A i \in 1..Len(event_queue) :
               event_queue[i].timestamp > held.timestamp
          /\ \A k \in 1..Len(objs) :
               /\ Ascending(evlists[objs[k].recent_events])
               /\ \A i \in 1..Len(evlists[objs[k].recent_events]) :
                    evlists[objs[k].recent_events][i].timestamp
                      <= held.timestamp)
    /\ [][/\ event_queue' # event_queue =>
               \/ /\ event_queue # << >>
                  /\ event_queue' = Tail(event_queue)
                  /\ held' = Head(event_queue)
                  /\ taken' = taken + 1
               \/ /\ Len(event_queue') = Len(event_queue) + 1
                  /\ SubSeq(event_queue', 1, Len(event_queue)) = event_queue
                  /\ UNCHANGED <<held, taken>>
          /\ event_queue' = event_queue => UNCHANGED <<held, taken>>
          /\ LET before == evlists[objs[state].recent_events]
                 after == evlists'[objs'[state'].recent_events]
             IN  \/ after = before
                 \/ /\ after = Append(before, held)
                    /\ pc.proc = "update_state"
                    /\ \A i \in 1..Len(before) :
                         before[i].timestamp < held.timestamp]_vars

\* two events were on the queue together and both have been applied
C11_Witness ==
    /\ taken = 2
    /\ Len(evlists[objs[state].recent_events]) = 2
    /\ evlists[objs[state].recent_events][2] = held
    /\ evlists[objs[state].recent_events][1].timestamp < held.timestamp
    /\ pc.proc = "while"

\* ------------------------------------------------------------------------
\* Progress of ingestion
\* ------------------------------------------------------------------------
\* process_auto_events has discarded the event it took last, and the head of
\* the queue is an event update_state accepts on the current state
ValidBehindDiscarded ==
    /\ hist.error # "ok"
    /\ hist.event = held
    /\ event_queue # << >>
    /\ TransitionError(objs[state], Head(event_queue)) = "ok"

\* C12: after process_auto_events has discarded a rejected event, a valid
\* event queued behind it is taken and accepted by update_state, unless the
\* agent is stopped first
C12_BadEventDoesNotHalt ==
    ValidBehindDiscarded ~> (~running \/ pc.proc = "write_p_draw")

\* a valid event was applied after a rejected one had been discarded
C12_Witness ==
    /\ taken = 2
    /\ hist.error = "ok"
    /\ hist.event = held
    /\ Len(evlists[objs[state].recent_events]) = 1
    /\ pc.proc = "while"
    /\ running

\* ------------------------------------------------------------------------
\* Stopping
\* ------------------------------------------------------------------------
\* C13: process_auto_events ends only at its while test, with running FALSE
\* and without writing anything in that step, so never between the
\* update_state call and the two assignments that follow it; once it has
\* ended it takes and applies no event; and once running is FALSE it
\* eventually ends
C13_StopsBetweenEvents ==
    /\ [][/\ (pc'.proc = "done" /\ pc.proc # "done") =>
               /\ pc.proc = "while"
               /\ ~running
               /\ NothingWritten
               /\ UNCHANGED <<event_queue, taken, held, hist>>
          /\ pc.proc = "done" =>
               /\ pc'.proc = "done"
               /\ NothingWritten
               /\ UNCHANGED <<taken, held, hist>>]_vars
    /\ ~running ~> pc.proc = "done"

\* the loop has ended on the stop signal after it had applied an event, with
\* another event still on the queue
C13_Witness ==
    /\ pc.proc = "done"
    /\ ~running
    /\ hist.error = "ok"
    /\ state > 1
    /\ event_queue # << >>

\* ------------------------------------------------------------------------
\* Order of the checks of update_state
\* ------------------------------------------------------------------------
\* C14: update_state fails with the negative-runs reason when runs_scored < 0,
\* otherwise with the overs reason when overs_played is below the prior
\* state's, otherwise with the wickets reason when the event is a wicket and
\* the prior wickets_lost + 1 > 10, and otherwise accepts the event
C14_FirstFailureWins ==
    [][Called =>
        LET e == hist'.event
            prior == objs[state]
        IN  /\ e.runs_scored < 0 => hist'.error = "Runs cannot be negative"
            /\ (e.runs_scored >= 0 /\ e.overs_played < prior.overs_played) =>
                 hist'.error = "Overs went backwards"
            /\ (/\ e.runs_scored >= 0
                /\ e.overs_played >= prior.overs_played
                /\ e.event_type = "wicket"
                /\ prior.wickets_lost + 1 > 10) =>
                 hist'.error = "Cannot lose more than 10 wickets"
            /\ (/\ e.runs_scored >= 0
                /\ e.overs_played >= prior.overs_played
                /\ ~(e.event_type = "wicket" /\ prior.wickets_lost + 1 > 10))
                 => (hist'.error = "ok" /\ state' = Len(objs) + 1)]_vars

\* an event with all three defects was rejected for its negative runs
C14_Witness ==
    /\ hist.prior = state
    /\ hist.event.runs_scored < 0
    /\ hist.event.overs_played < objs[state].overs_played
    /\ hist.event.event_type = "wicket"
    /\ objs[state].wickets_lost + 1 > 10
    /\ hist.error = "Runs cannot be negative"

\* ------------------------------------------------------------------------
\* Properties of validate_event
\* ------------------------------------------------------------------------
\* the payload of the last call has the five required keys
HasRequired(payload) ==
    {"event_type", "timestamp", "current_score", "current_wickets",
     "overs_played"} \subseteq payload.present

\* C15: validate_event returns no Event and fails when the payload lacks one
\* of event_type, timestamp, current_score, current_wickets, overs_played,
\* the error naming the first of them that is missing; when its timestamp is
\* text that does not parse; and when its balls_in_over is outside 1..6
C15_MalformedPayloadRejected ==
    validation.called =>
        LET payload == validation.payload
            result == validation.result
        IN  /\ \A i \in 1..5 :
                 (/\ required_fields[i] \notin payload.present
                  /\ \A j \in 1..(i - 1) :
                       required_fields[j] \in payload.present) =>
                    /\ ~result.ok
                    /\ result.error = "Missing required field"
                    /\ result.field = required_fields[i]
            /\ (/\ "timestamp" \in payload.present
                /\ payload.timestamp.kind = "text"
                /\ ~payload.timestamp.parses) => ~result.ok
            /\ (/\ "balls_in_over" \in payload.present
                /\ payload.balls_in_over \notin 1..6) => ~result.ok
            /\ ~result.ok => result.event = NoEvent /\ result.error # "ok"

\* a complete payload was rejected only for its balls_in_over of 7
C15_Witness ==
    /\ validation.called
    /\ HasRequired(validation.payload)
    /\ validation.payload.timestamp.parses
    /\ "balls_in_over" \in validation.payload.present
    /\ validation.payload.balls_in_over = 7
    /\ ~validation.result.ok
    /\ validation.result.field = "balls_in_over"

\* C16: validate_event returns an Event for every payload that has the five
\* required keys, a timestamp that is a datetime or text that parses, and no
\* balls_in_over outside 1..6, whatever its runs_scored, overs_played and
\* current_wickets
C16_WellFormedPayloadAccepted ==
    (/\ validation.called
     /\ HasRequired(validation.payload)
     /\ validation.payload.timestamp.parses
     /\ ("balls_in_over" \in validation.payload.present =>
           validation.payload.balls_in_over \in 1..6)) =>
        /\ validation.result.ok
        /\ validation.result.event.overs_played =
             validation.payload.overs_played

\* ------------------------------------------------------------------------
\* Dismissal records
\* ------------------------------------------------------------------------
\* dismissed_players of the current state before and after the step
DismissedBefore == dplists[objs[state].dismissed_players]

DismissedAfter == dplists'[objs'[state'].dismissed_players]

\* C17: every wicket event update_state accepts appends exactly one record to
\* the end of dismissed_players, every other accepted event appends none, and
\* the prior state's dismissed_players is a prefix of the successor's
C17_OneRecordPerWicket ==
    [][Accepted =>
        /\ Len(DismissedAfter) >= Len(DismissedBefore)
        /\ SubSeq(DismissedAfter, 1, Len(DismissedBefore)) = DismissedBefore
        /\ Len(DismissedAfter) =
             IF hist'.event.event_type = "wicket"
             THEN Len(DismissedBefore) + 1
             ELSE Len(DismissedBefore)]_vars

\* the record at the end of dismissed_players after the step
LastDismissed == DismissedAfter[Len(DismissedAfter)]

\* C18: an accepted wicket event whose batter is the prior state's
\* current_batter appends a record with that batter's tracked runs, the
\* event's current_score and the event's overs_played; on the seed state with
\* current_wickets = 3 the record has runs 2, the new state has wickets_lost 3
\* and p_draw is 0.35 x 0.85
C18_CurrentBatterDismissal ==
    [][(/\ Accepted
        /\ hist'.event.event_type = "wicket"
        /\ hist'.event.batter = objs[state].current_batter.name) =>
          /\ Len(DismissedAfter) = Len(DismissedBefore) + 1
          /\ LastDismissed.name = hist'.event.batter
          /\ LastDismissed.runs = objs[state].current_batter.runs
          /\ LastDismissed.dismissed_at_score = hist'.event.current_score
          /\ LastDismissed.dismissed_at_overs = hist'.event.overs_played
          /\ (state = 1 /\ hist'.event.current_wickets = 3) =>
               /\ LastDismissed.runs = 2
               /\ objs'[state'].wickets_lost = 3
               /\ REq(objs'[state'].p_draw, RMul20(Twentieths(7), 17))]_vars

\* the seed state's current batter was dismissed for the third wicket
C18_Witness ==
    /\ hist.prior = 1
    /\ hist.error = "ok"
    /\ state = 2
    /\ hist.event.event_type = "wicket"
    /\ hist.event.batter = CurrentBatterName
    /\ hist.event.current_wickets = 3
    /\ Len(dplists[objs[state].dismissed_players]) = 1
    /\ dplists[objs[state].dismissed_players][1].runs = 2
    /\ objs[state].wickets_lost = 3

FallbackOf(call) ==
    LET s == objs[call.ref]
        events == evlists[s.recent_events]
        dismissed == dplists[s.dismissed_players]
    IN  IF call.category = "stats"
        THEN StatsFallback(s, dismissed, call.query)
        ELSE IF call.category = "probability" THEN ProbabilityFallback(s)
        ELSE IF call.category = "momentum" THEN MomentumFallback(events)
        ELSE TacticalFallback(events, dismissed, call.query)

\* C20: whenever the response generator is unavailable, returns nothing or
\* raises, the agent the query is routed to returns its fallback text
\* computed from the state handle_query handed to it, and handle_query
\* always returns the text of an agent behind the tag of its category: no
\* exception of the generator or of an agent comes out of it
C20_FallbackWhenGeneratorFails ==
    answer # NoAnswer =>
        /\ answer.ref = state
        /\ answer.response.source \in {"generated", "fallback"}
        /\ answer.tag = CategoryTag(answer.category)
        /\ answer.generator \in {"none", "empty", "raises"} =>
             /\ answer.response.source = "fallback"
             /\ answer.response = FallbackOf(answer)

\* a tactical query on a state whose last event is an accepted wicket,
\* answered with the fallback text after the generator raised
C20_Witness ==
    /\ answer.generator = "raises"
    /\ answer.category = "tactical"
    /\ answer.response.template = "last wicket"
    /\ hist.error = "ok"
    /\ state > 1

\* the rules of the router in the order it tries them
RuleMatches(i, query) ==
    CASE i = 1 -> query \cap {"score", "runs", "wickets", "overs",
                              "batting"} # {}
      [] i = 2 -> query \cap {"run", "runs"} # {} /\ "win" \in query
      [] i = 3 -> "who" \in query /\ "momentum" \notin query
      [] i = 4 -> query \cap {"chance", "draw", "win", "probability", "odds",
                              "likely"} # {}
      [] i = 5 -> query \cap {"momentum", "happening", "happened",
                              "situation", "trouble", "doing"} # {}
      [] i = 6 -> query \cap {"dismissed", "dismissal"} # {}
      [] i = 7 -> query \cap {"why", "how"} # {} /\ "out" \in query
      [] OTHER -> TRUE

RuleLabel(i) ==
    CASE i \in {1, 2, 3, 8} -> "stats"
      [] i = 4 -> "probability"
      [] i = 5 -> "momentum"
      [] OTHER -> "tactical"

\* the label of the first of rules that matches query
FirstMatch(rules, query) ==
    RuleLabel(CHOOSE i \in rules :
                /\ RuleMatches(i, query)
                /\ \A j \in rules : j < i => ~RuleMatches(j, query))

RoutedAsTested ==
    /\ answer.query = test_queries[1] => answer.category = "stats"
    /\ answer.query = test_queries[2] => answer.category = "probability"
    /\ answer.query = test_queries[3] => answer.category = "momentum"
    /\ answer.query = test_queries[4] => answer.category = "tactical"

\* C21 as stated: every query gets exactly one of the four labels, decided
\* by the precedence stats keywords, 'who' without 'momentum', probability
\* keywords, momentum keywords, dismissal words, why/how with 'out', and
\* 'stats' by default; handle_query never answers "I didn't understand" and
\* the four test queries get stats, probability, momentum and tactical
C21_PrecedenceAsStated ==
    answer # NoAnswer =>
        /\ answer.category \in Categories
        /\ answer.category = FirstMatch((1..8) \ {2}, answer.query)
        /\ answer.response # NotUnderstood
        /\ RoutedAsTested

\* C21 (amended): as stated, with one more rule between the stats keywords
\* and 'who': a query with 'run' and 'win' is labelled stats, before the
\* probability keywords are looked at
C21_RouteQueryPrecedence ==
    answer # NoAnswer =>
        /\ answer.category \in Categories
        /\ answer.category = FirstMatch(1..8, answer.query)
        /\ answer.tag = CategoryTag(answer.category)
        /\ answer.tag # "no tag"
        /\ answer.response # NotUnderstood
        /\ RoutedAsTested

\* a query with 'run' and 'win' and no stats keyword, answered by the stats
\* agent
C21_Witness ==
    /\ answer.query = {"run", "win"}
    /\ answer.category = "stats"
    /\ answer.generator = "none"
    /\ answer.response.template = "runs needed"

\* the score data an event reports
DataOf(event) ==
    MatchData(event.current_score, event.current_wickets, event.overs_played)

\* C22: a poll enqueues an event only for data that differs from the current
\* match state: once the event reporting some score, wickets and overs has
\* been applied, a poll that fetches the same data again enqueues nothing,
\* so the state does not change again
C22_NoEventForUnchangedData ==
    [][Len(event_queue') > Len(event_queue) =>
         ~NoChange(DataOf(event_queue'[Len(event_queue')]), objs[state])]_vars

\* ------------------------------------------------------------------------
\* The fields of the successor state
\* ------------------------------------------------------------------------
\* C23: the state an accepted event produces has total_runs equal to the
\* event's current_score, wickets_lost equal to its current_wickets,
\* overs_played equal to its overs_played and last_updated equal to its
\* timestamp, whatever the prior totals and the event's runs_scored are
C23_TotalsTakenFromEvent ==
    [][Accepted =>
        /\ objs'[state'].total_runs = hist'.event.current_score
        /\ objs'[state'].wickets_lost = hist'.event.current_wickets
        /\ objs'[state'].overs_played = hist'.event.overs_played
        /\ objs'[state'].last_updated = hist'.event.timestamp]_vars

\* an accepted wicket event whose totals are neither the prior runs plus its
\* runs_scored nor the prior wickets plus one
C23_Witness ==
    /\ hist.error = "ok"
    /\ hist.event.event_type = "wicket"
    /\ state = Len(objs)
    /\ objs[state].total_runs = hist.event.current_score
    /\ objs[state].total_runs
         # objs[hist.prior].total_runs + hist.event.runs_scored
    /\ objs[state].wickets_lost = 10
    /\ objs[hist.prior].wickets_lost = 2

\* C24: match_id, team_batting, target and current_batter of every state
\* are those of the seed state, after any sequence of events
C24_IdentityFieldsCarriedOver ==
    \A i \in 1..Len(objs) :
        /\ objs[i].match_id = objs[1].match_id
        /\ objs[i].team_batting = objs[1].team_batting
        /\ objs[i].target = objs[1].target
        /\ objs[i].current_batter = objs[1].current_batter

\* the current batter has been dismissed and is still the current batter
C24_Witness ==
    /\ hist.error = "ok"
    /\ hist.event.event_type = "wicket"
    /\ hist.event.batter = objs[hist.prior].current_batter.name
    /\ state > 1
    /\ objs[state].current_batter = Batter(CurrentBatterName, 2, 4, TRUE)
    /\ dplists[objs[state].dismissed_players] # << >>

EventsBefore == evlists[objs[state].recent_events]

EventsAfter == evlists'[objs'[state'].recent_events]

\* C25: an accepted event makes recent_events the prior sequence followed by
\* that event, a rejected event leaves it as it was, and after n accepted
\* events its length is the seed's length plus n
C25_RecentEventsAppendOnly ==
    /\ [](Len(evlists[objs[state].recent_events])
            = Len(evlists[objs[1].recent_events]) + Len(objs) - 1)
    /\ [][/\ Accepted => EventsAfter = Append(EventsBefore, hist'.event)
          /\ Rejected => EventsAfter = EventsBefore]_vars

\* one event accepted and then another one rejected: recent_events holds
\* the first one only
C25_Witness ==
    /\ Len(objs) = 2
    /\ state = 2
    /\ hist.error \notin {"ok", None}
    /\ Len(evlists[objs[state].recent_events]) = 1
    /\ evlists[objs[state].recent_events][1] # hist.event

\* the runs of the runs events of name in events, first to last
RECURSIVE SumRunsForward(_, _)
SumRunsForward(events, name) ==
    IF events = << >> THEN 0
    ELSE (IF Head(events).batter = name /\ Head(events).event_type = "runs"
          THEN Head(events).runs_scored ELSE 0)
         + SumRunsForward(Tail(events), name)

RecordOfEvent ==
    /\ LastDismissed.name = hist'.event.batter
    /\ LastDismissed.fielder = hist'.event.fielder
    /\ LastDismissed.dismissed_at_score = hist'.event.current_score
    /\ LastDismissed.dismissed_at_overs = hist'.event.overs_played

\* C27 as stated: the record appended for a wicket event has the event's
\* dismissal_mode and bowler, each replaced by "unknown" when it is absent
\* (None), and the event's fielder, batter, current_score and overs_played
C27_UnknownOnlyWhenAbsent ==
    [][(Accepted /\ Len(DismissedAfter) > Len(DismissedBefore)) =>
          /\ RecordOfEvent
          /\ LastDismissed.dismissal_mode =
               IF hist'.event.dismissal_mode = None
               THEN "unknown" ELSE hist'.event.dismissal_mode
          /\ LastDismissed.bowler =
               IF hist'.event.bowler = None
               THEN "unknown" ELSE hist'.event.bowler]_vars

\* C27 (amended): dismissal_mode and bowler of the record are "unknown" when
\* the event's are absent or the empty text, else the event's
C27_UnknownWhenAbsentOrEmpty ==
    [][(Accepted /\ Len(DismissedAfter) > Len(DismissedBefore)) =>
          /\ RecordOfEvent
          /\ LastDismissed.dismissal_mode =
               IF hist'.event.dismissal_mode \in {None, ""}
               THEN "unknown" ELSE hist'.event.dismissal_mode
          /\ LastDismissed.bowler =
               IF hist'.event.bowler \in {None, ""}
               THEN "unknown" ELSE hist'.event.bowler]_vars

\* a wicket event with empty dismissal_mode and bowler left a record with
\* "unknown" for both
C27_Witness ==
    /\ hist.error = "ok"
    /\ hist.event.event_type = "wicket"
    /\ hist.event.dismissal_mode = ""
    /\ hist.event.bowler = ""
    /\ dplists[objs[state].dismissed_players] # << >>
    /\ dplists[objs[state].dismissed_players][
         Len(dplists[objs[state].dismissed_players])].dismissal_mode
           = "unknown"
    /\ dplists[objs[state].dismissed_players][
         Len(dplists[objs[state].dismissed_players])].bowler = "unknown"

\* ------------------------------------------------------------------------
\* Ownership of the current state
\* ------------------------------------------------------------------------
\* the current-state reference or an object of the heaps changes in this step
StateWritten ==
    state' # state \/ objs' # objs \/ evlists' # evlists \/ dplists' # dplists

\* C28: the current-state reference and the MatchState objects are written
\* by process_auto_events only, inside lines 121-123; a poll changes nothing
\* but its own counter and the tail of the event queue; the consumer takes
\* its events from the head of the queue; a query writes nothing
C28_SingleWriter ==
    [][/\ StateWritten =>
            /\ cur = "proc"
            /\ pc.proc \in {"update_state", "write_p_draw", "write_p_sa_win"}
       /\ polls' # polls =>
            /\ ~StateWritten
            /\ held' = held
            /\ \/ event_queue' = event_queue
               \/ /\ Len(event_queue') = Len(event_queue) + 1
                  /\ SubSeq(event_queue', 1, Len(event_queue)) = event_queue
       /\ held' # held =>
            /\ event_queue # << >>
            /\ held' = Head(event_queue)
            /\ event_queue' = Tail(event_queue)
       /\ reader' # reader => ~StateWritten]_vars

\* the producer has polled twice, the consumer has applied an event of the
\* queue and a query has been handled on the new state
C28_Witness ==
    /\ polls = 2
    /\ taken > 0
    /\ state > 1
    /\ hist.event = held
    /\ reader.ref = state

NeutralEvent ==
    /\ probe.event.event_type # "wicket"
    /\ ~(probe.event.event_type = "runs" /\ probe.event.runs_scored >= 4)

C31_WicketsStepByOne ==
    [][Accepted =>
        /\ objs'[state'].wickets_lost >= objs[state].wickets_lost
        /\ objs'[state'].wickets_lost =
             IF hist'.event.event_type = "wicket"
             THEN objs[state].wickets_lost + 1
             ELSE objs[state].wickets_lost]_vars

\* C32: from one state to the next total_runs never decreases, and the
\* total after an accepted event is the prior total plus its runs_scored
C32_RunsAccumulate ==
    [][Accepted =>
        /\ objs'[state'].total_runs >= objs[state].total_runs
        /\ objs'[state'].total_runs
             = objs[state].total_runs + hist'.event.runs_scored]_vars

\* C33: in every state of the running agent the records appended to
\* dismissed_players since the seed state are at most as many as the wickets
\* fallen since the seed state
C33_DismissalsWithinWickets ==
    Len(dplists[objs[state].dismissed_players])
      - Len(dplists[objs[1].dismissed_players])
        <= objs[state].wickets_lost - objs[1].wickets_lost

\* C34: every state built by an accepted event has the current_score,
\* current_wickets, overs_played and timestamp of the last element of its
\* recent_events as total_runs, wickets_lost, overs_played and last_updated,
\* and overs_played does not decrease along recent_events
C34_StateAgreesWithLastEvent ==
    \A i \in 1..Len(objs) :
        LET events == evlists[objs[i].recent_events]
        IN  events # << >> =>
              /\ objs[i].total_runs = events[Len(events)].current_score
              /\ objs[i].wickets_lost = events[Len(events)].current_wickets
              /\ objs[i].overs_played = events[Len(events)].overs_played
              /\ objs[i].last_updated = events[Len(events)].timestamp
              /\ \A j \in 1..(Len(events) - 1) :
                   events[j].overs_played <= events[j + 1].overs_played

\* two different events accepted, the second one later in the innings
C34_Witness ==
    /\ state = 3
    /\ hist.error = "ok"
    /\ Len(evlists[objs[state].recent_events]) = 2
    /\ evlists[objs[state].recent_events][1].overs_played
         < evlists[objs[state].recent_events][2].overs_played
    /\ evlists[objs[state].recent_events][2] = hist.event
    /\ objs[state].total_runs # objs[2].total_runs

\* C35: every event the producer builds from fetched data compared against
\* a state s passes the checks of update_state(s, event): its runs_scored is
\* not negative, its overs_played is not below that of s, and it is no
\* wicket event when s has ten wickets down
C35_ProducedEventsAccepted ==
    [][Len(event_queue') > Len(event_queue) =>
         update_state(objs, evlists, dplists, poll_state,
                      event_queue'[Len(event_queue')]).error = "ok"]_vars

====================================================================
